---- MODULE Spec2Model ----
(***************************************************************************)
(* State-machine model of src/main.rs: a client built from environment     *)
(* credentials, and the three transfer operations list_keys, upload_file   *)
(* and download_file, run either by main (MainSpec) or by an arbitrary     *)
(* caller (Spec).                                                          *)
(*                                                                         *)
(* A path or key string is a sequence of tokens: the separator "/" or a    *)
(* file-name atom.  The names "." and ".." are not modelled.               *)
(***************************************************************************)
EXTENDS Naturals, Sequences, FiniteSets

\* ------------------------------------------------------------ constants
ENV_CRED_KEY_ID == "S3_KEY_ID"
ENV_CRED_KEY_SECRET == "S3_KEY_SECRET"
BUCKET_NAME == "rust-aws-sdk-s3-demo"
REGION == "us-west-2"
CRED_SOURCE == "loaded-from-custom-env"

SEP == "/"
\* A file name that is not valid UTF-8 (Path::to_str gives None on it).
BadName == "\\xFF"

\* ---------------------------------------------------------------- bounds
MaxFileLen == 3
MaxPage == 2
\* BufWriter's capacity (DEFAULT_BUF_SIZE, 8 KiB in std), scaled down.
BufCapacity == 2

\* The byte values of the modelled contents.
Byte == {0, 1}

\* ------------------------------------------------------ sequence helpers
Last(s) == s[Len(s)]
Front(s) == SubSeq(s, 1, Len(s) - 1)
Prefix(s, n) == SubSeq(s, 1, n)
Suffix(s, n) == SubSeq(s, n + 1, Len(s))
SeqsUpTo(S, n) == UNION {[1..k -> S] : k \in 0..n}

\* ---------------------------------------------------------- std::path
\* Path::components: the names between separators; empty pieces (repeated or
\* trailing separators) are dropped.
RECURSIVE Components(_)
Components(p) ==
    IF p = <<>> THEN <<>>
    ELSE IF Head(p) = SEP THEN Components(Tail(p))
    ELSE <<Head(p)>> \o Components(Tail(p))

IsAbsolute(p) == p # <<>> /\ Head(p) = SEP

HasTrailingSep(p) == p # <<>> /\ Last(p) = SEP

\* The string of a component list (canonical: one separator between names).
RECURSIVE Unsplit(_)
Unsplit(cs) ==
    IF cs = <<>> THEN <<>>
    ELSE IF Len(cs) = 1 THEN cs
    ELSE <<Head(cs), SEP>> \o Unsplit(Tail(cs))

\* Path::join (PathBuf::push): an absolute argument replaces the base, else a
\* separator is added unless the base is empty or already ends with one.
Join(base, p) ==
    IF IsAbsolute(p) THEN p
    ELSE IF base # <<>> /\ Last(base) # SEP THEN base \o <<SEP>> \o p
    ELSE base \o p

\* Path::parent: None when the path has no name component (empty, or a root),
\* else the path without its last component.
Parent(p) ==
    IF Components(p) = <<>>
    THEN [some |-> FALSE, path |-> <<>>]
    ELSE [some |-> TRUE,
          path |-> (IF IsAbsolute(p) THEN <<SEP>> ELSE <<>>)
                     \o Unsplit(Front(Components(p)))]

\* Path::to_str: None when the path is not valid UTF-8.
ToStr(p) ==
    IF \E i \in 1..Len(p) : p[i] = BadName
    THEN [some |-> FALSE, str |-> <<>>]
    ELSE [some |-> TRUE, str |-> p]

\* mime_guess::from_path(..).first_or_octet_stream(): by the extension of the
\* file name, application/octet-stream when there is none or it is unknown.
MimeOfName(name) ==
    CASE name = "ski-02.mp4" -> "video/mp4"
      [] name = "main.rs" -> "text/x-rust"
      [] OTHER -> "application/octet-stream"

MimeGuess(p) ==
    IF Components(p) = <<>> THEN "application/octet-stream"
    ELSE MimeOfName(Last(Components(p)))

\* ------------------------------------------------------- local filesystem
\* A node is named by its component list from the root; cwd is the node the
\* relative paths start from.
Resolve(cwd, p) == IF IsAbsolute(p) THEN Components(p) ELSE cwd \o Components(p)

\* A validation that accepts whatever exists, a file included.
IsDirOrFile(fs, p) ==
    p # <<>> /\ (Resolve(fs.cwd, p) \in fs.dirs \/ Resolve(fs.cwd, p) \in DOMAIN fs.files)

\* Path::is_dir (stat): the empty string names nothing.
IsDir(fs, p) == p # <<>> /\ Resolve(fs.cwd, p) \in fs.dirs

\* A validation that takes every path to exist.
ExistsAlways(fs, p) == TRUE

\* Path::exists (stat): a file named with a trailing separator is ENOTDIR.
Exists(fs, p) ==
    /\ p # <<>>
    /\ \/ Resolve(fs.cwd, p) \in fs.dirs
       \/ Resolve(fs.cwd, p) \in DOMAIN fs.files /\ ~HasTrailingSep(p)

\* Every directory has its parent: the number of leading components of r that
\* name existing directories.
ExistingDepth(fs, r) ==
    CHOOSE d \in 0..Len(r) :
        /\ \A i \in 0..d : Prefix(r, i) \in fs.dirs
        /\ d < Len(r) => Prefix(r, d + 1) \notin fs.dirs

\* std::fs::create_dir_all: nothing to do for the empty string; else the missing
\* ancestors are made from the top down.  A mkdir may fail (a file in the way,
\* permissions, a full disk); the directories made before it stay.
CreateDirAll(fs, p) ==
    IF p = <<>> THEN {[ok |-> TRUE, dirs |-> fs.dirs]}
    ELSE LET r == Resolve(fs.cwd, p)
             d == ExistingDepth(fs, r)
         IN {[ok |-> n = Len(r),
              dirs |-> fs.dirs \cup {Prefix(r, i) : i \in (d + 1)..n}] :
               n \in {m \in d..Len(r) :
                        \A i \in (d + 1)..m : Prefix(r, i) \notin DOMAIN fs.files}}

\* File::create (open with O_WRONLY|O_CREAT|O_TRUNC): the file is made or
\* truncated; it fails on the empty string, on a name with a trailing
\* separator, on a directory, when the parent is no directory, and whenever
\* the system refuses.
CanCreate(fs, p) ==
    LET r == Resolve(fs.cwd, p)
    IN /\ p # <<>>
       /\ ~HasTrailingSep(p)
       /\ Components(p) # <<>>
       /\ r \notin fs.dirs
       /\ Front(r) \in fs.dirs

FileCreate(fs, p) ==
    LET r == Resolve(fs.cwd, p)
    IN {[ok |-> FALSE, files |-> fs.files]} \cup
       (IF CanCreate(fs, p)
        THEN {[ok |-> TRUE,
               files |-> [x \in DOMAIN fs.files \cup {r} |->
                            IF x = r THEN <<>> ELSE fs.files[x]]]}
        ELSE {})

\* File::write (write(2)) of a non-empty slice: the system takes a non-empty
\* prefix of it, possibly not all (a short write), or fails.
FileWrite(content, bytes) ==
    {[ok |-> FALSE, n |-> 0, content |-> content]} \cup
    {[ok |-> TRUE, n |-> k, content |-> content \o Prefix(bytes, k)] :
       k \in 1..Len(bytes)}

\* BufWriter::flush_buf: writes the buffer out, repeating after short writes,
\* until it is empty or a write fails; what was written leaves the buffer.
FlushBuf(content, buf) ==
    {[ok |-> k = Len(buf), content |-> content \o Prefix(buf, k),
      buf |-> Suffix(buf, k)] : k \in 0..Len(buf)}

\* BufWriter::write: a slice smaller than the spare capacity is buffered; else
\* the buffer is flushed if the slice does not fit, and a slice of at least the
\* capacity goes straight to File::write, whose count is the result.
BufWrite(content, buf, bytes) ==
    IF Len(bytes) < BufCapacity - Len(buf)
    THEN {[ok |-> TRUE, n |-> Len(bytes), content |-> content, buf |-> buf \o bytes]}
    ELSE LET flushed == IF Len(bytes) > BufCapacity - Len(buf)
                        THEN FlushBuf(content, buf)
                        ELSE {[ok |-> TRUE, content |-> content, buf |-> buf]}
         IN {[ok |-> FALSE, n |-> 0, content |-> f.content, buf |-> f.buf] :
               f \in {g \in flushed : ~g.ok}}
            \cup
            UNION {IF Len(bytes) >= BufCapacity
                   THEN {[ok |-> w.ok, n |-> w.n, content |-> w.content, buf |-> f.buf] :
                           w \in FileWrite(f.content, bytes)}
                   ELSE {[ok |-> TRUE, n |-> Len(bytes), content |-> f.content,
                          buf |-> f.buf \o bytes]} :
                   f \in {g \in flushed : g.ok}}

\* Drop of the BufWriter: one more flush_buf whose error is ignored.
DropBufWriter(content, buf) == {f.content : f \in FlushBuf(content, buf)}

\* ------------------------------------------------------------- the store
\* A ByteStream delivers a body as some sequence of non-empty chunks.
RECURSIVE Chunkings(_)
Chunkings(body) ==
    IF body = <<>> THEN {<<>>}
    ELSE UNION {{<<Prefix(body, k)>> \o c : c \in Chunkings(Suffix(body, k))} :
                  k \in 1..Len(body)}

\* Option values of the list response: an entry's key, a page's contents.
NoKey == [some |-> FALSE, str |-> <<>>]
SomeKey(k) == [some |-> TRUE, str |-> k]
NoContents == [some |-> FALSE, items |-> <<>>]
SomeContents(es) == [some |-> TRUE, items |-> es]
NoResponse == [contents |-> NoContents, truncated |-> FALSE]

\* ---------------------------------------------------------------- results
Ok == [kind |-> "Ok", detail |-> ""]
\* The anyhow errors of the source, named by the kinds of the error taxonomy:
\*   "Missing <VAR>"                -> MissingCredential, detail = <VAR>
\*   "Path {} is not a directory"   -> InvalidDestination
\*   "Invalid parent dir for {:?}"  -> InvalidKey
\*   "Path {} does not exists"      -> NotFound
\*   "Invalid path {path:?}"        -> InvalidPath
\*   an error of send() or of the body stream -> Network
\*   an std::io::Error              -> Io
Err(kind, detail) == [kind |-> kind, detail |-> detail]

Absent == "Absent"
NotUnicode == "NotUnicode"
NoClient == [region |-> "", key_id |-> "", key_secret |-> "", source |-> ""]

\* env::var: Err when the variable is absent or is not valid unicode.
EnvVar(e, name) ==
    IF e[name] \in {Absent, NotUnicode}
    THEN [ok |-> FALSE, value |-> ""]
    ELSE [ok |-> TRUE, value |-> e[name]]

\* The two lookups in the other order.
GetAwsClientSecretFirst(e, region) ==
    IF ~EnvVar(e, ENV_CRED_KEY_SECRET).ok
    THEN [result |-> [kind |-> "MissingCredential", detail |-> ENV_CRED_KEY_SECRET],
          client |-> NoClient]
    ELSE IF ~EnvVar(e, ENV_CRED_KEY_ID).ok
    THEN [result |-> [kind |-> "MissingCredential", detail |-> ENV_CRED_KEY_ID],
          client |-> NoClient]
    ELSE [result |-> Ok,
          client |-> [region |-> region,
                      key_id |-> EnvVar(e, ENV_CRED_KEY_ID).value,
                      key_secret |-> EnvVar(e, ENV_CRED_KEY_SECRET).value,
                      source |-> CRED_SOURCE]]

\* get_aws_client: both variables are looked up, the id first; each failure
\* returns at once with the context naming the variable.  The client is built
\* in memory.
GetAwsClientResult(e, region) ==
    IF ~EnvVar(e, ENV_CRED_KEY_ID).ok
    THEN [result |-> Err("MissingCredential", ENV_CRED_KEY_ID), client |-> NoClient]
    ELSE IF ~EnvVar(e, ENV_CRED_KEY_SECRET).ok
    THEN [result |-> Err("MissingCredential", ENV_CRED_KEY_SECRET), client |-> NoClient]
    ELSE [result |-> Ok,
          client |-> [region |-> region,
                      key_id |-> EnvVar(e, ENV_CRED_KEY_ID).value,
                      key_secret |-> EnvVar(e, ENV_CRED_KEY_SECRET).value,
                      source |-> CRED_SOURCE]]

\* A collection that stops at the first entry without a key.
RECURSIVE CollectKeysUntilKeyless(_)
CollectKeysUntilKeyless(entries) ==
    IF entries = <<>> THEN <<>>
    ELSE IF ~Head(entries).key.some THEN <<>>
    ELSE <<Head(entries).key.str>> \o CollectKeysUntilKeyless(Tail(entries))

\* list_keys, COLLECT: contents().unwrap_or_default(), then the key of every
\* entry that has one, in order.
RECURSIVE CollectKeys(_)
CollectKeys(entries) ==
    IF entries = <<>> THEN <<>>
    ELSE IF ~Head(entries).key.some THEN CollectKeys(Tail(entries))
    ELSE <<Head(entries).key.str>> \o CollectKeys(Tail(entries))

ListKeysReturn(response) ==
    CollectKeys(IF response.contents.some THEN response.contents.items ELSE <<>>)

\* ------------------------------------------------------------------ state
VARIABLES
    env,        \* the process environment: variable -> Absent, NotUnicode or a value
    fs,         \* the local filesystem: [cwd, dirs, files]
    bucket,     \* the store's bucket: key -> [body, content_type]
    client,     \* the Client, or NoClient
    requests,   \* every request handed to send(), in order
    op,         \* the operation being run, or the last one run
    dl,         \* download_file's locals: the body stream, the BufWriter, the file
    log,        \* the operations that returned, in order, with their results
    pc          \* the caller's position: main's, or an arbitrary caller's

vars == <<env, fs, bucket, client, requests, op, dl, log, pc>>

NoOp == [id |-> 0, name |-> "none", pc |-> "done", bucket |-> "", key |-> <<>>,
         dir |-> <<>>, path |-> <<>>, result |-> Ok, ret |-> <<>>, sent |-> 0,
         response |-> NoResponse]

NoDl == [stream |-> <<>>, buf |-> <<>>, file |-> <<>>, delivered |-> <<>>,
         body |-> <<>>]

NewOp(name) == [NoOp EXCEPT !.id = op.id + 1, !.name = name]

\* The entry of the log for a returned operation.
LogEntry(o, bytes) ==
    [name |-> o.name, kind |-> o.result.kind, key |-> o.key, bytes |-> bytes]

\* The content of the file a path names.
FileAt(f, p) == f.files[Resolve(f.cwd, p)]
IsFile(f, p) == Resolve(f.cwd, p) \in DOMAIN f.files

Idle == op.pc = "done"

\* `req.send()`: the request is handed to the store, once.
SendRequests(req) == <<req>>

\* A resumption that hands a failed request to the store once more.
ResentOnFailure(req, ok) == IF ok THEN <<>> ELSE <<req>>

\* `.await?` on the sent request: whatever the outcome nothing is sent again;
\* a failure is returned to the caller.
Resent(req, ok) == <<>>

Request(kind, bucket_name, key) == [kind |-> kind, bucket |-> bucket_name, key |-> key]

\* The filesystem with the content of the file at p replaced.
SetFile(f, p, content) == [f EXCEPT !.files[Resolve(f.cwd, p)] = content]

\* ------------------------------------------------------------ operations
\* Each action is the code between two suspension points (.await).  op.pc is
\* "from_path", "send" or "stream" while the call is suspended there, "done"
\* once it returned.

\* get_aws_client(region)
GetAwsClient(region) ==
    /\ Idle
    /\ LET g == GetAwsClientResult(env, region)
           o == [NewOp("get_aws_client") EXCEPT !.result = g.result]
       IN /\ client' = g.client
          /\ op' = o
          /\ log' = Append(log, LogEntry(o, <<>>))
    /\ UNCHANGED <<env, fs, bucket, requests, dl>>

\* list_keys(client, bucket_name), to the await of send: one list-objects-v2
\* request with the empty prefix is handed to the store.
ListKeys(bucket_name) ==
    /\ Idle
    /\ client # NoClient
    /\ LET sent == SendRequests(Request("list", bucket_name, <<>>))
       IN /\ requests' = requests \o sent
          /\ op' = [NewOp("list_keys") EXCEPT
                      !.pc = "send", !.bucket = bucket_name, !.sent = Len(sent)]
    /\ UNCHANGED <<env, fs, bucket, client, dl, log>>

\* list_keys, resumed: the store answered with one page (any entries, with or
\* without a key, truncated or not) or the request failed; COLLECT, return.
ListKeysResume(ok, response) ==
    /\ op.name = "list_keys"
    /\ op.pc = "send"
    /\ LET again == Resent(Request("list", op.bucket, <<>>), ok)
           o == [op EXCEPT
                   !.pc = "done",
                   !.sent = op.sent + Len(again),
                   !.response = IF ok THEN response ELSE NoResponse,
                   !.result = IF ok THEN Ok ELSE Err("Network", "list"),
                   !.ret = IF ok THEN ListKeysReturn(response) ELSE <<>>]
       IN /\ requests' = requests \o again
          /\ op' = o
          /\ log' = Append(log, LogEntry(o, <<>>))
    /\ UNCHANGED <<env, fs, bucket, client, dl>>

\* upload_file(client, bucket_name, path), to the await of
\* ByteStream::from_path: VALIDATE and the key.
UploadFile(bucket_name, path) ==
    /\ Idle
    /\ client # NoClient
    /\ LET o == [NewOp("upload_file") EXCEPT !.bucket = bucket_name, !.path = path]
           key == ToStr(path)
       IN IF ~Exists(fs, path)
          THEN /\ op' = [o EXCEPT !.result = Err("NotFound", "path")]
               /\ log' = Append(log, LogEntry(op', <<>>))
          ELSE IF ~key.some
          THEN /\ op' = [o EXCEPT !.result = Err("InvalidPath", "path")]
               /\ log' = Append(log, LogEntry(op', <<>>))
          ELSE /\ op' = [o EXCEPT !.pc = "from_path", !.key = key.str]
               /\ UNCHANGED log
    /\ UNCHANGED <<env, fs, bucket, client, requests, dl>>

\* upload_file, resumed from ByteStream::from_path, to the await of send.
\* loaded: the file's metadata was found; then the content type is guessed and
\* the put-object request handed to the store.
UploadFileLoaded(loaded) ==
    /\ op.name = "upload_file"
    /\ op.pc = "from_path"
    /\ IF ~(loaded /\ Exists(fs, op.path))
       THEN /\ op' = [op EXCEPT !.pc = "done", !.result = Err("Io", "from_path")]
            /\ log' = Append(log, LogEntry(op', <<>>))
            /\ UNCHANGED requests
       ELSE LET sent == SendRequests(Request("put", op.bucket, op.key))
            IN /\ requests' = requests \o sent
               /\ op' = [op EXCEPT !.pc = "send", !.sent = Len(sent)]
               /\ UNCHANGED log
    /\ UNCHANGED <<env, fs, bucket, client, dl>>

\* upload_file, resumed from send.  The body was streamed from the file while
\* the request was in flight (a directory cannot be read: the request fails).
\* ok: the request succeeded; stored: the store took the object (it may have,
\* even when the request is reported failed).
UploadFileResume(ok, stored) ==
    /\ op.name = "upload_file"
    /\ op.pc = "send"
    /\ LET readable == IsFile(fs, op.path) /\ ~HasTrailingSep(op.path)
           body == IF readable THEN FileAt(fs, op.path) ELSE <<>>
           done == ok /\ readable
           again == Resent(Request("put", op.bucket, op.key), done)
       IN /\ requests' = requests \o again
          /\ op' = [op EXCEPT !.pc = "done",
                              !.sent = op.sent + Len(again),
                              !.result = IF done THEN Ok ELSE Err("Network", "put")]
          /\ log' = Append(log, LogEntry(op', body))
          /\ bucket' = IF readable /\ (ok \/ stored)
                       THEN [k \in DOMAIN bucket \cup {op.key} |->
                               IF k = op.key
                               THEN [body |-> body, content_type |-> MimeGuess(op.path)]
                               ELSE bucket[k]]
                       ELSE bucket
    /\ UNCHANGED <<env, fs, client, dl>>

\* download_file(client, bucket_name, key, dir), to the await of send:
\* VALIDATE, the file path, the parent directories, the get-object request
\* handed to the store.
DownloadCall(bucket_name, key, dir) ==
    /\ Idle
    /\ client # NoClient
    /\ LET o == [NewOp("download_file") EXCEPT
                   !.bucket = bucket_name, !.key = key, !.dir = dir]
           file_path == Join(dir, key)
           parent_dir == Parent(file_path)
           fail(r) == /\ op' = [o EXCEPT !.result = r]
                      /\ log' = Append(log, LogEntry(op', <<>>))
                      /\ UNCHANGED requests
       IN /\ dl' = [NoDl EXCEPT !.file = file_path]
          /\ IF ~IsDir(fs, dir)
             THEN /\ fail(Err("InvalidDestination", "dir"))
                  /\ UNCHANGED fs
             ELSE IF ~parent_dir.some
             THEN /\ fail(Err("InvalidKey", "parent"))
                  /\ UNCHANGED fs
             ELSE \E mk \in (IF ~Exists(fs, parent_dir.path)
                             THEN CreateDirAll(fs, parent_dir.path)
                             ELSE {[ok |-> TRUE, dirs |-> fs.dirs]}) :
                  /\ fs' = [fs EXCEPT !.dirs = mk.dirs]
                  /\ IF ~mk.ok
                     THEN fail(Err("Io", "create_dir_all"))
                     ELSE LET sent == SendRequests(Request("get", bucket_name, key))
                          IN /\ requests' = requests \o sent
                             /\ op' = [o EXCEPT !.pc = "send", !.sent = Len(sent)]
                             /\ UNCHANGED log
    /\ UNCHANGED <<env, bucket, client>>

\* download_file, resumed from send, to the first await of try_next.  The
\* store answers a get of a key it holds with the object's body, in chunks of
\* its choice, or the request fails; then File::create makes or truncates the
\* file and the BufWriter is made.
DownloadResume(answered) ==
    /\ op.name = "download_file"
    /\ op.pc = "send"
    /\ LET ok == answered /\ op.key \in DOMAIN bucket
           again == Resent(Request("get", op.bucket, op.key), ok)
           fail(r) == /\ op' = [op EXCEPT !.pc = "done", !.result = r,
                                          !.sent = op.sent + Len(again)]
                      /\ log' = Append(log, LogEntry(op', <<>>))
                      /\ UNCHANGED <<fs, dl>>
       IN /\ requests' = requests \o again
          /\ IF ~ok
             THEN fail(Err("Network", "get"))
             ELSE \E chunks \in Chunkings(bucket[op.key].body),
                     c \in FileCreate(fs, dl.file) :
                  IF ~c.ok
                  THEN fail(Err("Io", "File::create"))
                  ELSE /\ fs' = [fs EXCEPT !.files = c.files]
                       /\ op' = [op EXCEPT !.pc = "stream"]
                       /\ dl' = [dl EXCEPT !.stream = chunks,
                                           !.body = bucket[op.key].body]
                       /\ UNCHANGED log
    /\ UNCHANGED <<env, bucket, client>>

\* download_file, one turn of `while let Some(bytes) = data.try_next().await?`
\* with its `buf_writer.write(&bytes)?`, and, at the end of the stream, the
\* flush and the return.  Every return drops the BufWriter.
DownloadNext ==
    /\ op.name = "download_file"
    /\ op.pc = "stream"
    /\ LET content == FileAt(fs, dl.file)
           return(r, c) ==
               /\ op' = [op EXCEPT !.pc = "done", !.result = r]
               /\ log' = Append(log, LogEntry(op', dl.delivered))
               /\ fs' = SetFile(fs, dl.file, c)
       IN \/ \* try_next fails
             /\ \E c \in DropBufWriter(content, dl.buf) :
                    return(Err("Network", "try_next"), c)
             /\ dl' = dl
          \/ \* try_next gives a chunk, which is written
             /\ dl.stream # <<>>
             /\ \E w \in BufWrite(content, dl.buf, Head(dl.stream)) :
                  IF w.ok
                  THEN /\ fs' = SetFile(fs, dl.file, w.content)
                       /\ dl' = [dl EXCEPT !.stream = Tail(dl.stream),
                                           !.buf = w.buf,
                                           !.delivered = dl.delivered \o Head(dl.stream)]
                       /\ UNCHANGED <<op, log>>
                  ELSE /\ \E c \in DropBufWriter(w.content, w.buf) :
                              return(Err("Io", "write"), c)
                       /\ dl' = [dl EXCEPT !.stream = Tail(dl.stream), !.buf = <<>>]
          \/ \* try_next gives None: flush, return
             /\ dl.stream = <<>>
             /\ \E f \in FlushBuf(content, dl.buf) :
                  IF f.ok
                  THEN /\ return(Ok, f.content)
                       /\ dl' = [dl EXCEPT !.buf = f.buf]
                  ELSE /\ \E c \in DropBufWriter(f.content, f.buf) :
                              return(Err("Io", "flush"), c)
                       /\ dl' = [dl EXCEPT !.buf = <<>>]
    /\ UNCHANGED <<env, bucket, client, requests>>

\* ------------------------------------------------- an arbitrary caller
\* The strings a caller passes: keys, destination directories, upload paths.
KeyInputs == {<<>>, <<SEP>>, <<"b">>, <<"a", SEP>>, <<"a", SEP, "b">>,
              <<SEP, "a", SEP, "b">>}
DirInputs == {<<>>, <<SEP>>, <<"a">>, <<"b">>, <<SEP, "b">>, <<"a", SEP>>}
PathInputs == {<<>>, <<"a">>, <<"b">>, <<"b", SEP>>, <<"a", SEP, "b">>,
               <<SEP, "a", SEP, "b">>, <<BadName>>}

Contents == SeqsUpTo(Byte, MaxFileLen)

EnvValues == {Absent, NotUnicode, "set"}
Envs == [{ENV_CRED_KEY_ID, ENV_CRED_KEY_SECRET} -> EnvValues]

Entries == [key : {NoKey} \cup {SomeKey(k) : k \in {<<"a">>, <<"a", SEP, "b">>}}]
ListResponses == [contents : {NoContents} \cup
                             {SomeContents(es) : es \in SeqsUpTo(Entries, MaxPage)},
                  truncated : BOOLEAN]

\* Filesystems: every directory has its parent, the root and the working
\* directory exist, a file lies in a directory and shares no name with one.
PrefixClosed(ds) == \A d \in ds : d = <<>> \/ Front(d) \in ds

Filesystems(cwd, dirNodes, fileNodes) ==
    {f \in [cwd : {cwd}, dirs : SUBSET dirNodes,
            files : UNION {[ns -> Contents] :
                             ns \in {n \in SUBSET fileNodes : Cardinality(n) <= 1}}] :
       /\ <<>> \in f.dirs
       /\ f.cwd \in f.dirs
       /\ PrefixClosed(f.dirs)
       /\ \A n \in DOMAIN f.files :
            /\ n \notin f.dirs
            /\ Front(n) \in f.dirs
            /\ Last(n) = BadName => f.files[n] = <<>>}

Buckets(keys) ==
    UNION {[ks -> [body : Contents, content_type : {"application/octet-stream"}]] :
             ks \in {k \in SUBSET keys : Cardinality(k) <= 1}}

Init ==
    /\ env \in Envs
    /\ fs \in Filesystems(<<"a">>,
                          {<<>>, <<"a">>, <<"b">>, <<"a", "a">>},
                          {<<"a", "b">>, <<"a", BadName>>})
    /\ bucket \in Buckets({<<"a", SEP, "b">>})
    /\ client = NoClient
    /\ requests = <<>>
    /\ op = NoOp
    /\ dl = NoDl
    /\ log = <<>>
    /\ pc = "new"

\* The caller builds the client, then calls one operation, or uploads a file
\* and then downloads an object; each call is made after the previous one
\* returned, and a suspended call is resumed until it returns.
Returned(next) ==
    IF op'.pc # "done" THEN pc
    ELSE IF op'.result = Ok THEN next ELSE "returned"

CallGetAwsClient ==
    /\ pc = "new"
    /\ GetAwsClient(REGION)
    /\ pc' = Returned("ready")

CallListKeys ==
    /\ pc = "ready"
    /\ ListKeys(BUCKET_NAME)
    /\ pc' = Returned("returned")

ResumeListKeys ==
    /\ pc = "ready"
    /\ \E ok \in BOOLEAN, response \in ListResponses : ListKeysResume(ok, response)
    /\ pc' = Returned("returned")

CallUploadFile ==
    /\ pc = "ready"
    /\ \E path \in PathInputs : UploadFile(BUCKET_NAME, path)
    /\ pc' = Returned("uploaded")

LoadedUploadFile ==
    /\ pc = "ready"
    /\ \E loaded \in BOOLEAN : UploadFileLoaded(loaded)
    /\ pc' = Returned("uploaded")

ResumeUploadFile ==
    /\ pc = "ready"
    /\ \E ok, stored \in BOOLEAN : UploadFileResume(ok, stored)
    /\ pc' = Returned("uploaded")

CallDownloadFile ==
    /\ pc \in {"ready", "uploaded"}
    /\ \E key \in KeyInputs, dir \in DirInputs : DownloadCall(BUCKET_NAME, key, dir)
    /\ pc' = Returned("returned")

ResumeDownloadFile ==
    /\ pc \in {"ready", "uploaded"}
    /\ \E answered \in BOOLEAN : DownloadResume(answered)
    /\ pc' = Returned("returned")

StepDownloadFile ==
    /\ pc \in {"ready", "uploaded"}
    /\ DownloadNext
    /\ pc' = Returned("returned")

Next ==
    \/ CallGetAwsClient
    \/ CallListKeys
    \/ ResumeListKeys
    \/ CallUploadFile
    \/ LoadedUploadFile
    \/ ResumeUploadFile
    \/ CallDownloadFile
    \/ ResumeDownloadFile
    \/ StepDownloadFile

Spec == Init /\ [][Next]_vars

\* ------------------------------------------------------------------ main
MainPath == <<"src", SEP, "main.rs">>
MainDir == <<".test-data", SEP, "downloads", SEP>>
MainKey == <<"videos", SEP, "ski-02.mp4">>
MainCwd == <<"repo">>

MainInit ==
    /\ env \in Envs
    /\ fs \in Filesystems(MainCwd,
                          {<<>>, MainCwd, MainCwd \o <<"src">>,
                           MainCwd \o <<".test-data">>,
                           MainCwd \o <<".test-data", "downloads">>,
                           MainCwd \o <<".test-data", "downloads", "videos">>},
                          {MainCwd \o <<"src", "main.rs">>,
                           MainCwd \o <<".test-data", "downloads", "videos">>,
                           MainCwd \o <<".test-data", "downloads", "videos",
                                        "ski-02.mp4">>})
    /\ bucket \in Buckets({MainKey})
    /\ client = NoClient
    /\ requests = <<>>
    /\ op = NoOp
    /\ dl = NoDl
    /\ log = <<>>
    /\ pc = "start"

\* A main that goes on after an error.
PropagateIgnored(result, next) == next

\* The `?` after each call of main: an error ends main with that error.
Propagate(result, next) == IF result = Ok THEN next ELSE "failed"

\* main stays at a statement while its call is suspended.
MainAfter(next) ==
    IF op'.pc # "done" THEN pc ELSE Propagate(op'.result, next)

\* let client = get_aws_client(REGION)?;
MainGetAwsClient ==
    /\ pc = "start"
    /\ GetAwsClient(REGION)
    /\ pc' = MainAfter("list")

\* let keys = list_keys(&client, BUCKET_NAME).await?;
MainListKeys ==
    /\ pc = "list"
    /\ ListKeys(BUCKET_NAME)
    /\ pc' = MainAfter("upload")

MainListKeysResume ==
    /\ pc = "list"
    /\ \E ok \in BOOLEAN, response \in ListResponses : ListKeysResume(ok, response)
    /\ pc' = MainAfter("upload")

\* upload_file(&client, BUCKET_NAME, path).await?;
MainUploadFile ==
    /\ pc = "upload"
    /\ UploadFile(BUCKET_NAME, MainPath)
    /\ pc' = MainAfter("download")

MainUploadFileLoaded ==
    /\ pc = "upload"
    /\ \E loaded \in BOOLEAN : UploadFileLoaded(loaded)
    /\ pc' = MainAfter("download")

MainUploadFileResume ==
    /\ pc = "upload"
    /\ \E ok, stored \in BOOLEAN : UploadFileResume(ok, stored)
    /\ pc' = MainAfter("download")

\* download_file(&client, BUCKET_NAME, key, dir).await?;
MainDownloadFile ==
    /\ pc = "download"
    /\ DownloadCall(BUCKET_NAME, MainKey, MainDir)
    /\ pc' = MainAfter("done")

MainDownloadFileResume ==
    /\ pc = "download"
    /\ \E answered \in BOOLEAN : DownloadResume(answered)
    /\ pc' = MainAfter("done")

MainStepDownloadFile ==
    /\ pc = "download"
    /\ DownloadNext
    /\ pc' = MainAfter("done")

MainNext ==
    \/ MainGetAwsClient
    \/ MainListKeys
    \/ MainListKeysResume
    \/ MainUploadFile
    \/ MainUploadFileLoaded
    \/ MainUploadFileResume
    \/ MainDownloadFile
    \/ MainDownloadFileResume
    \/ MainStepDownloadFile

MainSpec == MainInit /\ [][MainNext]_vars

\* ----------------------------------------------------------- properties
\* What the properties say of the filesystem is stated on its nodes.
Node(f, p) == IF p # <<>> /\ Head(p) = SEP THEN Components(p) ELSE f.cwd \o Components(p)
NotADirectory(f, p) == p = <<>> \/ Node(f, p) \notin f.dirs
NoSuchPath(f, p) ==
    \/ p = <<>>
    \/ Node(f, p) \notin f.dirs /\ Node(f, p) \notin DOMAIN f.files
    \/ Node(f, p) \in DOMAIN f.files /\ Last(p) = SEP

\* A step that starts (and, unless it is left streaming, ends) a call of name n.
Calls(n) == op'.id # op.id /\ op'.name = n

\* C1: a download_file whose destination is not an existing directory fails
\* with InvalidDestination, hands no request to the store, and leaves the
\* filesystem as it was: no directory and no file is created.
C1_InvalidDestination ==
    [][(Calls("download_file") /\ NotADirectory(fs, op'.dir))
         => /\ op'.pc = "done"
            /\ op'.result.kind = "InvalidDestination"
            /\ requests' = requests
            /\ fs' = fs]_vars

C1_Witness ==
    /\ op.name = "download_file"
    /\ op.pc = "done"
    /\ op.result.kind = "InvalidDestination"
    /\ op.dir = <<"b">>
    /\ Node(fs, op.dir) \in DOMAIN fs.files
    /\ op.key = <<"a", SEP, "b">>
    /\ op.key \in DOMAIN bucket
    /\ requests = <<>>

\* C2: an upload_file of a path that does not exist fails with NotFound and
\* hands no request to the store; the bucket is unchanged.
C2_UploadNotFound ==
    [][(Calls("upload_file") /\ NoSuchPath(fs, op'.path))
         => /\ op'.pc = "done"
            /\ op'.result.kind = "NotFound"
            /\ requests' = requests
            /\ bucket' = bucket]_vars

C2_Witness ==
    /\ op.name = "upload_file"
    /\ op.result.kind = "NotFound"
    /\ op.path = <<"a", SEP, "b">>
    /\ NoSuchPath(fs, op.path)
    /\ requests = <<>>

\* C3 as stated: whichever of the two variables is absent, construction fails
\* with MissingCredential naming that variable, returns no client and makes no
\* request.
C3_Original ==
    op.name = "get_aws_client" =>
        \A v \in {ENV_CRED_KEY_ID, ENV_CRED_KEY_SECRET} :
            env[v] = Absent =>
                /\ op.result = [kind |-> "MissingCredential", detail |-> v]
                /\ client = NoClient
                /\ requests = <<>>

\* C3, amended: an absent id variable is named; an absent secret variable is
\* named when the id variable is set; in both cases no client is returned and
\* no request is made.
C3_MissingCredential ==
    op.name = "get_aws_client" =>
        /\ env[ENV_CRED_KEY_ID] = Absent =>
             /\ op.result = [kind |-> "MissingCredential", detail |-> ENV_CRED_KEY_ID]
             /\ client = NoClient
             /\ requests = <<>>
        /\ (env[ENV_CRED_KEY_ID] = "set" /\ env[ENV_CRED_KEY_SECRET] = Absent) =>
             /\ op.result = [kind |-> "MissingCredential", detail |-> ENV_CRED_KEY_SECRET]
             /\ client = NoClient
             /\ requests = <<>>

C3_Witness ==
    /\ op.name = "get_aws_client"
    /\ env[ENV_CRED_KEY_ID] = "set"
    /\ env[ENV_CRED_KEY_SECRET] = Absent
    /\ op.result = [kind |-> "MissingCredential", detail |-> ENV_CRED_KEY_SECRET]
    /\ client = NoClient

\* C4: when download_file returns success, the destination file holds exactly
\* the response body, the chunks in arrival order, and nothing is left in the
\* BufWriter.
C4_WholeBodyWritten ==
    (op.name = "download_file" /\ op.pc = "done" /\ op.result = Ok)
        => /\ dl.delivered = dl.body
           /\ fs.files[Node(fs, dl.file)] = dl.body
           /\ dl.buf = <<>>

\* C5: a successful upload_file of a file, then a successful download_file of
\* the key made from its path, leaves a destination file with the uploaded
\* file's bytes.
C5_RoundTrip ==
    (/\ Len(log) >= 2
     /\ log[Len(log) - 1].name = "upload_file"
     /\ log[Len(log) - 1].kind = "Ok"
     /\ log[Len(log)].name = "download_file"
     /\ log[Len(log)].kind = "Ok"
     /\ log[Len(log)].key = log[Len(log) - 1].key)
        => fs.files[Node(fs, dl.file)] = log[Len(log) - 1].bytes

\* C6: a download_file with an existing destination directory and the empty
\* key fails with InvalidKey, before any request.
C6_EmptyKeyInvalid ==
    (/\ op.name = "download_file"
     /\ op.pc = "done"
     /\ op.key = <<>>
     /\ ~NotADirectory(fs, op.dir))
        => /\ op.result.kind = "InvalidKey"
           /\ op.sent = 0

\* C7: a successful download_file of a key with nested separators into the
\* directory D leaves the file at D/key, every directory above it existing.
C7_FileUnderDestination ==
    (/\ op.name = "download_file"
     /\ op.pc = "done"
     /\ op.result = Ok
     /\ Len(Components(op.key)) >= 2)
        => LET node == Node(fs, op.dir) \o Components(op.key)
           IN /\ node \in DOMAIN fs.files
              /\ \A i \in 0..(Len(node) - 1) : SubSeq(node, 1, i) \in fs.dirs

\* The keys of the entries that have one, in the order of the page.
KeyedAt(items) == {i \in 1..Len(items) : items[i].key.some}
NthKeyed(items, j) ==
    CHOOSE i \in KeyedAt(items) : Cardinality({m \in KeyedAt(items) : m <= i}) = j
PageKeys(response) ==
    IF response.contents.some
    THEN [j \in 1..Cardinality(KeyedAt(response.contents.items)) |->
            response.contents.items[NthKeyed(response.contents.items, j)].key.str]
    ELSE <<>>

\* C8: list_keys hands exactly one request, a list request, to the store, when
\* it is called; when it returns success it has sent nothing more and returns
\* the keys of the entries of the one page it got that have a key, in the
\* page's order, whether or not the page is truncated; a page without entries
\* gives the empty sequence.
C8_ListFirstPageKeys ==
    [][/\ Calls("list_keys") =>
            requests' = Append(requests, [kind |-> "list", bucket |-> op'.bucket,
                                          key |-> <<>>])
       /\ (op'.id = op.id /\ op.name = "list_keys") =>
            /\ op'.pc = "done"
            /\ requests' = requests
            /\ op'.result = Ok => op'.ret = PageKeys(op'.response)]_vars

C8_Witness ==
    /\ op.name = "list_keys"
    /\ op.result = Ok
    /\ op.response.truncated
    /\ op.response.contents.some
    /\ Len(op.response.contents.items) = 2
    /\ ~op.response.contents.items[1].key.some
    /\ op.response.contents.items[2].key.some
    /\ op.ret = <<op.response.contents.items[2].key.str>>
    /\ Len(requests) = 1

\* C9: a call hands at most one request to the store; when the request
\* fails the call returns the error as it is resumed, sending nothing again and
\* creating no file; a failed read or write of a chunk ends the download in
\* that step, with no further chunk read, and with nothing written but bytes
\* buffered from earlier chunks.
C9_NoRetryImmediateAbort ==
    [][/\ op'.sent <= 1
       /\ op'.id # op.id => Len(requests') = Len(requests) + op'.sent
       /\ op'.id = op.id => Len(requests') + op.sent = Len(requests) + op'.sent
       /\ (op'.id = op.id /\ op.pc = "send") =>
            /\ requests' = requests
            /\ op'.result # Ok => (op'.pc = "done" /\ fs' = fs /\ dl' = dl)
       /\ (op'.id = op.id /\ op.pc = "stream") =>
            /\ op.name = "download_file"
            /\ requests' = requests
            /\ op'.result # Ok =>
                 /\ op'.pc = "done"
                 /\ dl'.delivered = dl.delivered
                 /\ \/ dl'.stream = dl.stream
                    \/ dl.stream # <<>> /\ dl'.stream = Tail(dl.stream)
                 /\ \E k \in 0..Len(dl.buf) :
                        fs'.files[Node(fs, dl.file)] =
                            fs.files[Node(fs, dl.file)] \o SubSeq(dl.buf, 1, k)]_vars

C9_Witness ==
    /\ op.name = "download_file"
    /\ op.pc = "done"
    /\ op.result.kind \in {"Network", "Io"}
    /\ dl.delivered # <<>>
    /\ dl.stream # <<>>
    /\ Len(requests) = 1

\* C10: main runs get_aws_client, list_keys, upload_file and download_file in
\* this order, each after the one before returned Ok, one at a time (a call
\* that is suspended is the only one not yet returned); the requests handed to
\* the store are a list, then a put, then a get; an error ends main with that
\* error and nothing more is started.
MainOrder == <<"get_aws_client", "list_keys", "upload_file", "download_file">>
MainRequests == <<"list", "put", "get">>

C10_MainSequential ==
    /\ Len(log) <= Len(MainOrder)
    /\ \A i \in 1..Len(log) :
         /\ log[i].name = MainOrder[i]
         /\ i < Len(log) => log[i].kind = "Ok"
    /\ Len(requests) <= Len(MainRequests)
    /\ \A i \in 1..Len(requests) :
         /\ requests[i].kind = MainRequests[i]
         /\ Len(log) >= i
         /\ \A j \in 1..i : log[j].kind = "Ok"
    /\ op.pc # "done" =>
         /\ Len(log) = op.id - 1
         /\ op.id <= Len(MainOrder)
         /\ op.name = MainOrder[op.id]
         /\ pc = <<"start", "list", "upload", "download">>[op.id]
    /\ (log # <<>> /\ log[Len(log)].kind # "Ok") =>
         (pc = "failed" /\ op.result.kind = log[Len(log)].kind)
    /\ pc = "failed" => (log # <<>> /\ log[Len(log)].kind # "Ok" /\ op.pc = "done")
    /\ pc = "done" => (Len(log) = Len(MainOrder) /\ log[Len(log)].kind = "Ok")

C10_Witness ==
    /\ pc = "failed"
    /\ Len(log) = 3
    /\ log[3].name = "upload_file"
    /\ log[3].kind = "Network"
    /\ Len(requests) = 2
====
